---- MODULE Spec2Model ----
(***************************************************************************)
(* Model of azure_mriqc_server.py: the Flask handler run_mriqc, the two    *)
(* scratch directories UPLOAD_FOLDER and OUTPUT_FOLDER, and the result     *)
(* archive /tmp/mriqc_results.zip.  Every statement of the handler that    *)
(* touches the disk is one atomic step, so that overlapping requests       *)
(* interleave statement by statement.                                      *)
(*                                                                         *)
(* Every file on disk carries the id of the request whose handling wrote   *)
(* it (0: no such file).  The filesystem is assumed not to fail: rmtree    *)
(* removes what it is asked to remove.  The container runtime and the tool *)
(* are external: an invocation returns any outcome of Outcomes.            *)
(***************************************************************************)
EXTENDS Integers, Sequences, FiniteSets, TLC

VARIABLES nextId, pc, req, subj_id, bids_root, cmd, run_result, resp,
          upload, output, resultZip, stub, hist, overlap, lost, wrote

vars == <<nextId, pc, req, subj_id, bids_root, cmd, run_result, resp,
          upload, output, resultZip, stub, hist, overlap, lost, wrote>>

\* Number of requests the server receives in a behaviour.
MaxRequests == 3

Requests == 1..MaxRequests

\* The two requests of a behaviour in which the server dispatches requests
\* concurrently: either may arrive while the other is being handled.
Pair == {1, 2}

\* ---------------------------------------------------------------- inputs
NoLabel == "<omitted>"
Labels == {NoLabel, "02"}

DirNames == {"dsA", "dsB"}
FileNames == {"README"}
ZipName == "bids_data.zip"
UploadNames == DirNames \cup FileNames \cup {ZipName}
OutNames == {"out1", "out2"}

\* request.files.get("bids_zip") when the field is absent
NoZip == [present |-> FALSE, corrupt |-> FALSE, dirs |-> {}, files |-> {}]

\* The uploaded archives: one that zipfile cannot read, and readable ones
\* with zero, one and two top-level directories.
Archives ==
    {[present |-> TRUE, corrupt |-> TRUE, dirs |-> {}, files |-> {}]}
    \cup {[present |-> TRUE, corrupt |-> FALSE, dirs |-> D, files |-> FileNames] :
             D \in {{}, {"dsA"}, {"dsA", "dsB"}}}

\* What one run of the container can do: exit code, captured stderr, and the
\* files it wrote below its /out mount (a failing run may have written some).
Outcomes ==
    {[returncode |-> 0, stderr |-> "", files |-> F] :
         F \in {{"out1"}, {"out1", "out2"}}}
    \cup {[returncode |-> 1, stderr |-> "boom", files |-> {"out1"}]}

NoRun == [returncode |-> -1, stderr |-> "", files |-> {}]

\* ------------------------------------------------------------ filesystem
EmptyUpload == [n \in UploadNames |-> 0]
EmptyOutput == [n \in OutNames |-> 0]

\* shutil.rmtree(path, ignore_errors=True) changed so that it removes nothing
RmtreeKeep(ws) == ws

\* shutil.rmtree(path, ignore_errors=True): the directory and all below it go
Rmtree(ws) == [exists |-> FALSE, entries |-> [n \in DOMAIN ws.entries |-> 0]]

\* os.makedirs(path, exist_ok=True)
Makedirs(ws) == [ws EXCEPT !.exists = TRUE]

\* ids of the requests that have a file in the workspace
OwnersOf(ws) == {ws.entries[n] : n \in DOMAIN ws.entries} \ {0}

NoArchive == [exists |-> FALSE, by |-> 0, files |-> EmptyOutput]

\* shutil.make_archive(base_name, "zip", root_dir): every file below root_dir
MakeArchive(r, ws) == [exists |-> TRUE, by |-> r, files |-> ws.entries]

\* ------------------------------------------------------------- responses
NoResp == [kind |-> "none", status |-> 0, json |-> {}, file |-> EmptyOutput]

\* jsonify({"error": msg}), code
JsonError(code, msg) ==
    [kind |-> "json", status |-> code, json |-> {<<"error", msg>>},
     file |-> EmptyOutput]

ErrNoZip == JsonError(400, "No BIDS zip provided")
ErrNoDir == JsonError(400, "No BIDS directory found after unzipping.")

\* the failure response changed so that it drops the captured text
ErrMriqcNoStderr(text) == JsonError(500, "MRIQC failed")

\* jsonify({"error": "MRIQC failed", "stderr": run_result.stderr}), 500
ErrMriqc(text) ==
    [kind |-> "json", status |-> 500,
     json |-> {<<"error", "MRIQC failed">>, <<"stderr", text>>},
     file |-> EmptyOutput]

\* an exception that leaves the handler: Flask answers 500 with its own page
InternalError ==
    [kind |-> "html", status |-> 500, json |-> {}, file |-> EmptyOutput]

\* send_file(result_zip_path, as_attachment=True)
SendFile(zip) ==
    [kind |-> "file", status |-> 200, json |-> {}, file |-> zip.files]

\* the payload test changed so that a request without archive passes it
PayloadMissingNever(zip) == FALSE

\* `not bids_zip`
PayloadMissing(zip) == ~zip.present

\* the default changed so that the caller's label is ignored
SubjIdAlwaysDefault(label) == "01"

\* request.form.get("participant_label", "01")
SubjId(label) == IF label = NoLabel THEN "01" ELSE label

NoCmd == [image |-> "", data |-> "", out |-> "", mode |-> "",
          participant_label |-> "", modalities |-> <<>>]

\* the argument list handed to subprocess.run
Cmd(root, subj) ==
    [image |-> "nipreps/mriqc:22.0.6", data |-> root, out |-> "/tmp/mriqc_output",
     mode |-> "participant", participant_label |-> subj,
     modalities |-> <<"T1w", "T2w", "bold">>]

\* the exit-code test changed so that a failed run is packed all the same
RunFailedNever(rc) == FALSE

\* `run_result.returncode != 0`
RunFailed(rc) == rc # 0

\* --------------------------------------------------------------- helpers
InFlight(r) == pc[r] \notin {"idle", "done"}
NoneInFlight == \A r \in Requests : ~InFlight(r)

Log(r, step) == [hist EXCEPT ![r] = Append(@, step)]

\* requests other than r that are in flight and own a file of the workspace
Victims(r, ws) == {v \in OwnersOf(ws) : v # r /\ InFlight(v)}

Init ==
    /\ nextId = 0
    /\ pc = [r \in Requests |-> "idle"]
    /\ req = [r \in Requests |-> [zip |-> NoZip, label |-> NoLabel]]
    /\ subj_id = [r \in Requests |-> ""]
    /\ bids_root = [r \in Requests |-> ""]
    /\ cmd = [r \in Requests |-> NoCmd]
    /\ run_result = [r \in Requests |-> NoRun]
    /\ resp = [r \in Requests |-> NoResp]
    /\ upload = [exists |-> TRUE, entries |-> EmptyUpload]
    /\ output = [exists |-> TRUE, entries |-> EmptyOutput]
    /\ resultZip = NoArchive
    /\ stub = [k \in DirNames \X {"01", "02"} |-> NoRun]
    /\ hist = [r \in Requests |-> <<>>]
    /\ overlap = [r \in Requests |-> FALSE]
    /\ lost = [r \in Requests |-> FALSE]
    /\ wrote = [r \in Requests |-> {}]

\* An exception leaves the handler at this step.
Raise(r, step) ==
    /\ pc' = [pc EXCEPT ![r] = "done"]
    /\ resp' = [resp EXCEPT ![r] = InternalError]
    /\ hist' = Log(r, step)

\* Lines 42-46: a request arrives; its form is parsed and the payload tested.
Receive(r) ==
    /\ r = nextId + 1
    /\ pc[r] = "idle"
    /\ nextId' = r
    /\ \E z \in Archives \cup {NoZip}, l \in Labels :
          /\ req' = [req EXCEPT ![r] = [zip |-> z, label |-> l]]
          /\ subj_id' = [subj_id EXCEPT ![r] = SubjId(l)]
          /\ IF PayloadMissing(z)
                THEN /\ pc' = [pc EXCEPT ![r] = "done"]
                     /\ resp' = [resp EXCEPT ![r] = ErrNoZip]
                ELSE /\ pc' = [pc EXCEPT ![r] = "rm_upload"]
                     /\ resp' = resp
    /\ hist' = Log(r, "parse")
    /\ overlap' = [x \in Requests |->
                     IF x = r THEN ~NoneInFlight
                     ELSE overlap[x] \/ InFlight(x)]
    /\ UNCHANGED <<bids_root, cmd, run_result, upload, output, resultZip,
                   stub, lost, wrote>>

\* A request arrives while no other is being handled.
ReceiveAlone(r) ==
    /\ NoneInFlight
    /\ Receive(r)

\* A request arrives at a server that dispatches every request at once.
ReceiveAny(r) ==
    /\ r \in Pair
    /\ Receive(r)

\* Line 49: shutil.rmtree(UPLOAD_FOLDER, ignore_errors=True)
RmUpload(r) ==
    /\ pc[r] = "rm_upload"
    /\ upload' = Rmtree(upload)
    /\ lost' = [v \in Requests |->
                  lost[v] \/ (v \in Victims(r, upload) /\ upload' # upload)]
    /\ pc' = [pc EXCEPT ![r] = "rm_output"]
    /\ hist' = Log(r, "rm_upload")
    /\ UNCHANGED <<nextId, req, subj_id, bids_root, cmd, run_result, resp,
                   output, resultZip, stub, overlap, wrote>>

\* Line 50: shutil.rmtree(OUTPUT_FOLDER, ignore_errors=True)
RmOutput(r) ==
    /\ pc[r] = "rm_output"
    /\ output' = Rmtree(output)
    /\ lost' = [v \in Requests |->
                  lost[v] \/ (v \in Victims(r, output) /\ output' # output)]
    /\ pc' = [pc EXCEPT ![r] = "mk_upload"]
    /\ hist' = Log(r, "rm_output")
    /\ UNCHANGED <<nextId, req, subj_id, bids_root, cmd, run_result, resp,
                   upload, resultZip, stub, overlap, wrote>>

\* Line 51: os.makedirs(UPLOAD_FOLDER, exist_ok=True)
MkUpload(r) ==
    /\ pc[r] = "mk_upload"
    /\ upload' = Makedirs(upload)
    /\ pc' = [pc EXCEPT ![r] = "mk_output"]
    /\ hist' = Log(r, "mk_upload")
    /\ UNCHANGED <<nextId, req, subj_id, bids_root, cmd, run_result, resp,
                   output, resultZip, stub, overlap, lost, wrote>>

\* Line 52: os.makedirs(OUTPUT_FOLDER, exist_ok=True)
MkOutput(r) ==
    /\ pc[r] = "mk_output"
    /\ output' = Makedirs(output)
    /\ pc' = [pc EXCEPT ![r] = "save"]
    /\ hist' = Log(r, "mk_output")
    /\ UNCHANGED <<nextId, req, subj_id, bids_root, cmd, run_result, resp,
                   upload, resultZip, stub, overlap, lost, wrote>>

\* Lines 55-56: bids_zip.save(zip_path); the open fails when another request
\* has removed UPLOAD_FOLDER in between.
Save(r) ==
    /\ pc[r] = "save"
    /\ IF upload.exists
          THEN /\ upload' = [upload EXCEPT !.entries[ZipName] = r]
               /\ pc' = [pc EXCEPT ![r] = "extract"]
               /\ hist' = Log(r, "save")
               /\ resp' = resp
          ELSE /\ Raise(r, "save")
               /\ upload' = upload
    /\ UNCHANGED <<nextId, req, subj_id, bids_root, cmd, run_result,
                   output, resultZip, stub, overlap, lost, wrote>>

\* Lines 59-60: zipfile.ZipFile(zip_path).extractall(UPLOAD_FOLDER).  The
\* file read is whatever is at zip_path now: FileNotFoundError when it is
\* gone, BadZipFile when it is not a zip archive.
Extract(r) ==
    /\ pc[r] = "extract"
    /\ LET o == upload.entries[ZipName] IN
       IF o = 0 \/ req[o].zip.corrupt
          THEN /\ Raise(r, "extract")
               /\ upload' = upload
          ELSE /\ upload' = [upload EXCEPT !.entries =
                    [n \in UploadNames |->
                       IF n \in req[o].zip.dirs \cup req[o].zip.files
                          THEN r ELSE @[n]]]
               /\ pc' = [pc EXCEPT ![r] = "find_root"]
               /\ hist' = Log(r, "extract")
               /\ resp' = resp
    /\ UNCHANGED <<nextId, req, subj_id, bids_root, cmd, run_result,
                   output, resultZip, stub, overlap, lost, wrote>>

\* Lines 64-71: the first directory that Path(UPLOAD_FOLDER).iterdir() yields.
\* The order of iterdir() is arbitrary, so the first directory is any of them.
FindRoot(r) ==
    /\ pc[r] = "find_root"
    /\ hist' = Log(r, "find_root")
    /\ LET found == {d \in DirNames : upload.entries[d] # 0} IN
       IF ~upload.exists
          THEN /\ pc' = [pc EXCEPT ![r] = "done"]
               /\ resp' = [resp EXCEPT ![r] = InternalError]
               /\ bids_root' = bids_root
          ELSE IF found = {}
          THEN /\ pc' = [pc EXCEPT ![r] = "done"]
               /\ resp' = [resp EXCEPT ![r] = ErrNoDir]
               /\ bids_root' = bids_root
          ELSE /\ \E d \in found : bids_root' = [bids_root EXCEPT ![r] = d]
               /\ pc' = [pc EXCEPT ![r] = "docker"]
               /\ resp' = resp
    /\ UNCHANGED <<nextId, req, subj_id, cmd, run_result, upload, output,
                   resultZip, stub, overlap, lost, wrote>>

\* Lines 74-91 for a run that ends with outcome o: the mounts exist after the
\* run (the runtime creates a missing host path of -v), the tool's files are
\* in OUTPUT_FOLDER, and a nonzero exit code ends the request.
Run(r, o) ==
    /\ cmd' = [cmd EXCEPT ![r] = Cmd(bids_root[r], subj_id[r])]
    /\ run_result' = [run_result EXCEPT ![r] = o]
    /\ wrote' = [wrote EXCEPT ![r] = o.files]
    /\ upload' = [exists |-> TRUE,
                  entries |-> [upload.entries EXCEPT ![bids_root[r]] =
                                  IF @ = 0 THEN r ELSE @]]
    /\ output' = [exists |-> TRUE,
                  entries |-> [n \in OutNames |->
                                  IF n \in o.files THEN r ELSE output.entries[n]]]
    /\ hist' = Log(r, "docker")
    /\ IF RunFailed(o.returncode)
          THEN /\ pc' = [pc EXCEPT ![r] = "done"]
               /\ resp' = [resp EXCEPT ![r] = ErrMriqc(o.stderr)]
          ELSE /\ pc' = [pc EXCEPT ![r] = "make_archive"]
               /\ resp' = resp
    /\ UNCHANGED <<nextId, req, subj_id, bids_root, resultZip, overlap, lost>>

\* The container runs and ends with any outcome.
DockerRun(r) ==
    /\ pc[r] = "docker"
    /\ \E o \in Outcomes : Run(r, o)
    /\ stub' = stub

\* The container runs a tool whose outcome is a function of the mounted input
\* root and the label: the outcome of the first run on an input is kept.
DockerRunStub(r) ==
    /\ pc[r] = "docker"
    /\ LET k == <<bids_root[r], subj_id[r]>> IN
       \E o \in Outcomes :
          /\ stub[k] \in {NoRun, o}
          /\ stub' = [stub EXCEPT ![k] = o]
          /\ Run(r, o)

\* Lines 94-99: shutil.make_archive(...); it fails when another request has
\* removed OUTPUT_FOLDER in between.
Pack(r) ==
    /\ pc[r] = "make_archive"
    /\ IF output.exists
          THEN /\ resultZip' = MakeArchive(r, output)
               /\ pc' = [pc EXCEPT ![r] = "send_file"]
               /\ hist' = Log(r, "pack")
               /\ resp' = resp
          ELSE /\ Raise(r, "pack")
               /\ resultZip' = resultZip
    /\ UNCHANGED <<nextId, req, subj_id, bids_root, cmd, run_result,
                   upload, output, stub, overlap, lost, wrote>>

\* Line 102: send_file(result_zip_path, as_attachment=True)
Send(r) ==
    /\ pc[r] = "send_file"
    /\ resp' = [resp EXCEPT ![r] = SendFile(resultZip)]
    /\ pc' = [pc EXCEPT ![r] = "done"]
    /\ hist' = Log(r, "send")
    /\ UNCHANGED <<nextId, req, subj_id, bids_root, cmd, run_result,
                   upload, output, resultZip, stub, overlap, lost, wrote>>

\* The steps of a request after its arrival, up to the container run.
Before(r) ==
    \/ RmUpload(r)
    \/ RmOutput(r)
    \/ MkUpload(r)
    \/ MkOutput(r)
    \/ Save(r)
    \/ Extract(r)
    \/ FindRoot(r)

\* The steps of a request after the container run.
After(r) ==
    \/ Pack(r)
    \/ Send(r)

\* Two requests are dispatched as they arrive and may overlap.
Next ==
    \E r \in Requests :
       ReceiveAny(r) \/ Before(r) \/ DockerRun(r) \/ After(r)

Spec == Init /\ [][Next]_vars

\* Requests are handled one at a time.
NextSeq ==
    \E r \in Requests :
       ReceiveAlone(r) \/ Before(r) \/ DockerRun(r) \/ After(r)

SpecSeq == Init /\ [][NextSeq]_vars

\* Requests are handled one at a time and the tool is deterministic.
NextStub ==
    \E r \in Requests :
       ReceiveAlone(r) \/ Before(r) \/ DockerRunStub(r) \/ After(r)

SpecStub == Init /\ [][NextStub]_vars

\* ---------------------------------------------------------------- claims
Done(r) == pc[r] = "done"
Arrived(r) == r <= nextId
Readable(z) == z.present /\ ~z.corrupt

\* the archive whose files are exactly those the tool run of r wrote
OwnFiles(r) == [n \in OutNames |-> IF n \in wrote[r] THEN r ELSE 0]

\* the names of the files in an archive
NamesIn(files) == {n \in OutNames : files[n] # 0}

\* C1: every request without a bids_zip payload is answered 400 with the
\* body {"error": "No BIDS zip provided"}, at once, whatever its label and
\* whatever is on disk.
C1_NoPayloadIs400 ==
    \A r \in Requests :
       (Arrived(r) /\ ~req[r].zip.present) =>
          /\ Done(r)
          /\ resp[r].kind = "json"
          /\ resp[r].status = 400
          /\ resp[r].json = {<<"error", "No BIDS zip provided">>}

\* C1 witness: a labelled request without payload was answered while an
\* earlier request's files were on disk.
C1_Witness ==
    \E r \in Requests :
       /\ r > 1 /\ Done(r) /\ ~req[r].zip.present /\ req[r].label = "02"
       /\ upload.entries[ZipName] = r - 1
       /\ resp[r].status = 400

\* C2: handled one at a time, a request whose archive is readable and has no
\* top-level directory is answered 400 with the body
\* {"error": "No BIDS directory found after unzipping."}.
C2_NoDirectoryIs400 ==
    \A r \in Requests :
       (Done(r) /\ Readable(req[r].zip) /\ req[r].zip.dirs = {}) =>
          /\ resp[r].kind = "json"
          /\ resp[r].status = 400
          /\ resp[r].json = {<<"error", "No BIDS directory found after unzipping.">>}

\* C2 witness: such a request was answered right after a request whose
\* archive had put directories into the upload workspace.
C2_Witness ==
    \E r \in Requests :
       /\ r > 1 /\ Done(r) /\ Readable(req[r].zip) /\ req[r].zip.dirs = {}
       /\ Readable(req[r - 1].zip) /\ req[r - 1].zip.dirs # {}
       /\ resp[r].status = 400

\* C3: a request whose container run returned a nonzero exit code with
\* captured text s is answered 500 with the body
\* {"error": "MRIQC failed", "stderr": s}.
C3_FailedRunIs500 ==
    \A r \in Requests :
       (run_result[r] # NoRun /\ run_result[r].returncode # 0) =>
          /\ Done(r)
          /\ resp[r].kind = "json"
          /\ resp[r].status = 500
          /\ resp[r].json = {<<"error", "MRIQC failed">>,
                             <<"stderr", run_result[r].stderr>>}

\* C3 witness: a run that exited 1 with the text "boom" was answered, for a
\* request that overlapped another.
C3_Witness ==
    \E r \in Requests :
       /\ run_result[r].returncode = 1 /\ run_result[r].stderr = "boom"
       /\ Done(r) /\ resp[r].status = 500 /\ overlap[r]

\* C4: handled one at a time, a request whose archive has exactly one
\* top-level directory and whose tool run exited 0 is answered 200 with an
\* archive holding exactly the files that run wrote.
C4_SuccessIsToolOutput ==
    \A r \in Requests :
       (/\ Done(r) /\ Readable(req[r].zip) /\ Cardinality(req[r].zip.dirs) = 1
        /\ run_result[r].returncode = 0) =>
          /\ resp[r].kind = "file"
          /\ resp[r].status = 200
          /\ resp[r].file = OwnFiles(r)

\* C4 witness: such a request succeeded after an earlier run had written a
\* file that its own run did not write.
C4_Witness ==
    \E r \in Requests :
       /\ r > 1 /\ Done(r) /\ Cardinality(req[r].zip.dirs) = 1
       /\ run_result[r].returncode = 0 /\ resp[r].status = 200
       /\ wrote[r - 1] \ wrote[r] # {}

\* C5 as stated: with a deterministic tool, the same request issued twice in
\* sequence, successful the first time, gets the same success response the
\* second time.
C5_SameRequestSameResponse ==
    \A r \in Requests \ {MaxRequests} :
       (/\ Done(r) /\ Done(r + 1) /\ req[r + 1] = req[r]
        /\ resp[r].status = 200) =>
          /\ resp[r + 1].status = 200
          /\ NamesIn(resp[r + 1].file) = NamesIn(resp[r].file)

\* C5 amended: the same holds when the archive has exactly one top-level
\* directory, so that the input root does not depend on the order in which
\* the directory is listed.
C5_SameRequestOneDirSameResponse ==
    \A r \in Requests \ {MaxRequests} :
       (/\ Done(r) /\ Done(r + 1) /\ req[r + 1] = req[r]
        /\ resp[r].status = 200
        /\ Cardinality(req[r].zip.dirs) = 1) =>
          /\ resp[r + 1].status = 200
          /\ NamesIn(resp[r + 1].file) = NamesIn(resp[r].file)

\* C5 witness: a one-directory request succeeded twice in a row, after an
\* earlier request with another archive.
C5_Witness ==
    \E r \in Requests \ {1, MaxRequests} :
       /\ Done(r) /\ Done(r + 1) /\ req[r + 1] = req[r]
       /\ Cardinality(req[r].zip.dirs) = 1
       /\ resp[r].status = 200 /\ resp[r + 1].status = 200
       /\ Cardinality(req[r - 1].zip.dirs) = 2

\* C6: the label handed to the container runtime is the caller's
\* participant_label, and "01" when the request has none.
C6_LabelPassedThrough ==
    \A r \in Requests :
       cmd[r] # NoCmd =>
          cmd[r].participant_label =
             IF req[r].label = NoLabel THEN "01" ELSE req[r].label

\* C6 witness: the runtime was invoked for a request without label and for a
\* request with the label "02".
C6_Witness ==
    \E r, q \in Requests :
       /\ cmd[r] # NoCmd /\ req[r].label = NoLabel
       /\ cmd[q] # NoCmd /\ req[q].label = "02"

\* the requests that have a file in a workspace
WorkspaceOwners == OwnersOf(upload) \cup OwnersOf(output)

\* the requests that have a file on disk, the result archive included
ArtifactOwners ==
    WorkspaceOwners \cup (IF resultZip.exists THEN {resultZip.by} ELSE {})

\* C7 as stated: handled one at a time, the upload workspace, the output
\* workspace and the result archive hold files of at most one request.
C7_OneRequestOnDisk == Cardinality(ArtifactOwners) <= 1

\* C7 amended: handled one at a time, the two workspaces together hold files
\* of at most one request (the result archive stays that of the last
\* successful request until a later one succeeds).
C7_OneRequestInWorkspaces == Cardinality(WorkspaceOwners) <= 1

\* C7 witness: the workspaces hold a request's files while the result archive
\* is that of an earlier request.
C7_Witness ==
    /\ resultZip.exists
    /\ OwnersOf(upload) # {} /\ OwnersOf(output) # {}
    /\ resultZip.by \notin WorkspaceOwners

Failed(r) == Done(r) /\ resp[r].status \in {400, 500}

\* nothing that r put on disk has been removed
LeftAsIs(r) ==
    /\ \A i \in 1..Len(hist[r]) : hist[r][i] = "save" => upload.entries[ZipName] = r
    /\ \A n \in wrote[r] : output.entries[n] = r

\* C9 as stated: handled one at a time, once the request after a failed
\* request has been handled, no file of the failed request is on disk.
C9_NextRequestCleans ==
    \A r \in Requests \ {MaxRequests} :
       (Failed(r) /\ Done(r + 1)) => r \notin ArtifactOwners

\* C9 amended: handled one at a time, a failed request's files stay on disk
\* as long as no later request carried a payload, and none of them is left
\* once a later request that carried a payload has been handled.
C9_NextPayloadCleans ==
    \A r \in Requests :
       Failed(r) =>
          /\ (\A x \in Requests : (x > r /\ Arrived(x)) => ~req[x].zip.present)
                => LeftAsIs(r)
          /\ \A x \in Requests :
                (x > r /\ Done(x) /\ req[x].zip.present) => r \notin ArtifactOwners

\* C9 witness: a request failed after its run had written a file, and the
\* next request, which carried a payload, has been handled.
C9_Witness ==
    \E r \in Requests \ {MaxRequests} :
       /\ Failed(r) /\ wrote[r] # {}
       /\ Done(r + 1) /\ req[r + 1].zip.present

FullOrder ==
    <<"parse", "rm_upload", "rm_output", "mk_upload", "mk_output", "save",
      "extract", "find_root", "docker", "pack", "send">>

Steps(r) == {hist[r][i] : i \in 1..Len(hist[r])}

\* C10: the steps a request has taken are an initial part of the fixed order
\* (so none is repeated, and the container run comes after reset, save,
\* extraction and root search); packing and a success response come only
\* after a run that exited 0; a request answered 400 has not run the container.
C10_FixedOrder ==
    \A r \in Requests :
       /\ Len(hist[r]) <= Len(FullOrder)
       /\ hist[r] = SubSeq(FullOrder, 1, Len(hist[r]))
       /\ "pack" \in Steps(r) => run_result[r].returncode = 0
       /\ resp[r].status = 200 =>
             /\ run_result[r].returncode = 0
             /\ hist[r] = FullOrder
       /\ resp[r].status = 400 => "docker" \notin Steps(r)
       /\ "docker" \in Steps(r) <=> cmd[r] # NoCmd

\* C10 witness: of two overlapping requests one was answered 200 after all
\* steps and the other 500 after a failed run.
C10_Witness ==
    \E r, q \in Requests :
       /\ overlap[r] /\ overlap[q]
       /\ resp[r].status = 200 /\ hist[r] = FullOrder
       /\ resp[q].status = 500 /\ run_result[q].returncode = 1

\* r was answered 400 for an archive that had a directory, or 200 with an
\* archive that is not what its own run wrote
WrongOutcome(r) ==
    /\ Done(r)
    /\ \/ /\ resp[r].status = 400
          /\ Readable(req[r].zip) /\ req[r].zip.dirs # {}
       \/ /\ resp[r].status = 200
          /\ resp[r].file # OwnFiles(r)

\* C8: a request gets a wrong outcome only when it overlapped another
\* request; the witness is the interleaving the claim speaks of.
C8_WrongOnlyWhenOverlapping ==
    \A r \in Requests : WrongOutcome(r) => overlap[r]

\* C8 witness: another request's rmtree removed files of a request in flight,
\* and that request got a wrong outcome.
C8_Witness ==
    \E r \in Requests : lost[r] /\ WrongOutcome(r)

\* the two wrong outcomes of C8, each after a loss
C8_Wrong400 ==
    \E r \in Requests : lost[r] /\ WrongOutcome(r) /\ resp[r].status = 400

C8_Wrong200 ==
    \E r \in Requests : lost[r] /\ WrongOutcome(r) /\ resp[r].status = 200

====
